---- MODULE Spec2Model ----
(***************************************************************************)
(* Model of the interview-transcript front end:                            *)
(*   - the useInterviewProcessor hook (ProcessingState, result, the        *)
(*     progress timer and the remote call),                                *)
(*   - the InterviewForm component (transcript, validation, submit gate),  *)
(*   - the Home page wiring (the reset button).                            *)
(* React state is modelled at event granularity: every handler, timer      *)
(* callback and promise continuation runs to completion, together with the *)
(* effects its state changes trigger, before the next event is taken.      *)
(***************************************************************************)
EXTENDS Integers, Sequences, FiniteSets, TLC

(* ---------------------------- bounds ----------------------------------- *)

\* Number of accepted submissions explored.
MaxSubmissions == 3

\* The per-submission tick counter saturates here (six steps and one no-op).
MaxTicks == 7

(* ------------------------- values and helpers -------------------------- *)

\* JavaScript null / undefined versus a present value.
None == <<>>
Some(x) == <<x>>
IsSome(o) == o # None
Val(o) == o[1]

\* A transcript is observed by the code only through its length, the length
\* of its trimmed form and its truthiness; a text is that pair.
Text(n, t) == [len |-> n, trimmedLen |-> t]
EmptyText == Text(0, 0)
BlankText == Text(60, 0)
ShortText == Text(10, 10)
GoodText  == Text(60, 60)
Texts == {EmptyText, BlankText, ShortText, GoodText}

\* JS truthiness of a string.
Truthy(text) == text.len > 0

MODELS == <<"anthropic/claude-3.5-sonnet", "openai/gpt-4o", "openai/gpt-4o-mini">>
ModelValues == {MODELS[i] : i \in DOMAIN MODELS}

MinTranscriptLength == 50
MaxTranscriptLength == 50000

RequiredFinding == [field |-> "transcript", message |-> "Transcript is required"]
TooShortFinding == [field |-> "transcript", message |-> "too short"]
TooLongFinding  == [field |-> "transcript", message |-> "too long"]

\* validateTranscript with the minimum length excluded.
validateTranscript_Exclusive(text) ==
    (IF text.trimmedLen = 0 THEN <<RequiredFinding>> ELSE <<>>)
    \o (IF text.len <= MinTranscriptLength THEN <<TooShortFinding>> ELSE <<>>)
    \o (IF text.len > MaxTranscriptLength THEN <<TooLongFinding>> ELSE <<>>)

\* validateTranscript of @/lib/utils: the three rules of the Validator,
\* each evaluated on the text alone.
validateTranscript(text) ==
    (IF text.trimmedLen = 0 THEN <<RequiredFinding>> ELSE <<>>)
    \o (IF text.len < MinTranscriptLength THEN <<TooShortFinding>> ELSE <<>>)
    \o (IF text.len > MaxTranscriptLength THEN <<TooLongFinding>> ELSE <<>>)

\* Responses the API client can resolve with.  A response is either an
\* object with the six fields or a nullish value (reading a field of it
\* throws a TypeError).
ResponseA ==
    [summary |-> "ok", highlights |-> <<"a">>, lowlights |-> <<>>,
     key_named_entities |-> "name:Jane", processing_time |-> None, model |-> "m"]
ResponseB ==
    [summary |-> "s2", highlights |-> <<"h1", "h2">>, lowlights |-> <<"l1">>,
     key_named_entities |-> "none", processing_time |-> Some(3), model |-> "m2"]
Responses == {Some(ResponseA), Some(ResponseB), None}

\* Values the API client can reject with: a message, an empty message, or
\* a value that carries no message property.
Thrown(m) == [message |-> m]
Rejections == {Thrown(Some("rate limited")), Thrown(Some("")), Thrown(None)}

TypeErrorMessage == "Cannot read properties of undefined"
GenericMessage == "An unexpected error occurred"
DefaultModel == "anthropic/claude-3.5-sonnet"

(* ------------------------------ state ---------------------------------- *)

VARIABLES
    result,            \* hook: InterviewResult | null
    processingState,   \* hook: ProcessingState
    timers,            \* live setInterval timers, named by their submission
    inflight,          \* remote calls issued and not yet settled
    nextId,            \* number of processInterview calls made so far
    escaped,           \* processInterview promises that rejected
    transcript,        \* form: transcript
    selectedModel,     \* form: selectedModel
    validationErrors,  \* form: validationErrors
    hasInteracted,     \* form: hasInteracted
    pending,           \* debounce: the texts of the scheduled invocations
    ticks,             \* ticks fired so far for the submission in flight
    lastEvent          \* the event that produced the current state

hookVars == <<result, processingState, timers, inflight, nextId, escaped>>
formVars == <<transcript, selectedModel, validationErrors, hasInteracted, pending>>
vars == <<result, processingState, timers, inflight, nextId, escaped,
          transcript, selectedModel, validationErrors, hasInteracted, pending,
          ticks, lastEvent>>

isLoading == processingState.isLoading
error == processingState.error

\* kind: the handler or callback that ran; id: the submission it belongs to
\* (0 when none); arg: the value a rejected call threw, the response a
\* resolved call returned, or the scheduled validation a change cancelled;
\* ticks: for a settled call, the ticks that fired while it was in flight.
SettleEvent(k, i, a, n) == [kind |-> k, id |-> i, arg |-> a, ticks |-> n]
Event(k, i, a) == SettleEvent(k, i, a, 0)

IdleState ==
    [isLoading |-> FALSE, progress |-> 0, currentTask |-> "", error |-> None]

Init ==
    /\ result = None
    /\ processingState = IdleState
    /\ timers = {}
    /\ inflight = {}
    /\ nextId = 0
    /\ escaped = {}
    /\ transcript = EmptyText
    /\ selectedModel = MODELS[1]
    /\ validationErrors = <<>>
    /\ hasInteracted = FALSE
    /\ pending = {}
    /\ ticks = 0
    /\ lastEvent = Event("init", 0, None)

(* ------------------------ useInterviewProcessor ------------------------ *)

progressSteps ==
    << [progress |-> 10, task |-> "Validating transcript..."],
       [progress |-> 25, task |-> "Preprocessing text..."],
       [progress |-> 40, task |-> "Analyzing content with AI..."],
       [progress |-> 60, task |-> "Extracting highlights and lowlights..."],
       [progress |-> 80, task |-> "Identifying key information..."],
       [progress |-> 95, task |-> "Finalizing results..."] >>

SetMin(S) == CHOOSE x \in S : \A y \in S : x <= y

\* FindStep falling back to the first step when no step is ahead.
FindStep_Wrap(p) ==
    LET idx == {i \in DOMAIN progressSteps : progressSteps[i].progress > p}
    IN  Some(progressSteps[IF idx = {} THEN 1 ELSE SetMin(idx)])

\* FindStep comparing with >= instead of >.
FindStep_Geq(p) ==
    LET idx == {i \in DOMAIN progressSteps : progressSteps[i].progress >= p}
    IN  IF idx = {} THEN None ELSE Some(progressSteps[SetMin(idx)])

\* Array.prototype.find over progressSteps.
FindStep(p) ==
    LET idx == {i \in DOMAIN progressSteps : progressSteps[i].progress > p}
    IN  IF idx = {} THEN None ELSE Some(progressSteps[SetMin(idx)])

\* The updater the interval callback hands to setProcessingState.
TickUpdate(prev) ==
    LET nextStep == FindStep(prev.progress)
    IN  IF IsSome(nextStep)
        THEN [prev EXCEPT !.progress = Val(nextStep).progress,
                          !.currentTask = Val(nextStep).task]
        ELSE prev

\* StartedState carrying the previous error over.
StartedState_KeepError ==
    [isLoading |-> TRUE, progress |-> 0,
     currentTask |-> "Validating transcript...", error |-> processingState.error]

\* processInterview up to its await: reset the previous state, start the
\* interval, build the request and issue the remote call.
StartedState ==
    [isLoading |-> TRUE, progress |-> 0,
     currentTask |-> "Validating transcript...", error |-> None]

BuildRequest_NoDefault(text, model) ==
    [transcript |-> text,
     model |-> IF IsSome(model) THEN Val(model) ELSE DefaultModel]

BuildRequest(text, model) ==
    [transcript |-> text,
     model |-> IF IsSome(model) /\ Val(model) # "" THEN Val(model) ELSE DefaultModel]

\* processInterviewStart without setResult(null).
processInterviewStart_KeepResult(text, model) ==
    /\ UNCHANGED result
    /\ processingState' = StartedState
    /\ timers' = timers \cup {nextId + 1}
    /\ inflight' = inflight \cup {[id |-> nextId + 1, request |-> BuildRequest(text, model)]}
    /\ nextId' = nextId + 1
    /\ ticks' = 0
    /\ UNCHANGED escaped

processInterviewStart(text, model) ==
    /\ result' = None
    /\ processingState' = StartedState
    /\ timers' = timers \cup {nextId + 1}
    /\ inflight' = inflight \cup {[id |-> nextId + 1, request |-> BuildRequest(text, model)]}
    /\ nextId' = nextId + 1
    /\ ticks' = 0
    /\ UNCHANGED escaped

\* The interval callback of the timer started by submission t.
Tick(t) ==
    /\ t \in timers
    /\ processingState' = TickUpdate(processingState)
    /\ ticks' = IF isLoading /\ ticks < MaxTicks THEN ticks + 1 ELSE ticks
    /\ lastEvent' = Event("tick", t, None)
    /\ UNCHANGED <<result, timers, inflight, nextId, escaped>>
    /\ UNCHANGED formVars

\* The interval a settling call clears on the path through line 73.
ClearedOnResolve(id) == {id}

\* The interval the catch block clears: none, progressInterval is not in
\* scope there.
ClearedOnReject(id) == {}

\* FailureState leaving isLoading set.
FailureState_StillLoading(thrown) ==
    [isLoading |-> TRUE, progress |-> 0, currentTask |-> "",
     error |-> Some(IF IsSome(thrown.message) /\ Val(thrown.message) # ""
                    THEN Val(thrown.message) ELSE GenericMessage)]

\* The state written by the catch block for a thrown value.
FailureState(thrown) ==
    [isLoading |-> FALSE, progress |-> 0, currentTask |-> "",
     error |-> Some(IF IsSome(thrown.message) /\ Val(thrown.message) # ""
                    THEN Val(thrown.message) ELSE GenericMessage)]

\* CompleteState keeping the progress the simulator had reached.
CompleteState_Unforced ==
    [isLoading |-> FALSE, progress |-> processingState.progress,
     currentTask |-> "Complete", error |-> None]

CompleteState ==
    [isLoading |-> FALSE, progress |-> 100, currentTask |-> "Complete", error |-> None]

\* ToInterviewResult with highlights and lowlights exchanged.
ToInterviewResult_Swapped(response) ==
    [summary |-> response.summary,
     highlights |-> response.lowlights,
     lowlights |-> response.highlights,
     key_named_entities |-> response.key_named_entities,
     processing_time |-> response.processing_time,
     model |-> response.model]

ToInterviewResult(response) ==
    [summary |-> response.summary,
     highlights |-> response.highlights,
     lowlights |-> response.lowlights,
     key_named_entities |-> response.key_named_entities,
     processing_time |-> response.processing_time,
     model |-> response.model]

\* EscapesCatch for a catch block that rethrows.
EscapesCatch_Rethrow(id) == {id}

\* Promises of processInterview that reject when the catch block runs.
EscapesCatch(id) == {}

\* The remote call of c resolves with response: the continuation after the
\* await clears the interval, maps the response and commits the final state;
\* a nullish response makes the mapping throw into the catch block.
Resolve(c, response) ==
    /\ c \in inflight
    /\ inflight' = inflight \ {c}
    /\ timers' = timers \ ClearedOnResolve(c.id)
    /\ IF IsSome(response)
       THEN /\ result' = Some(ToInterviewResult(Val(response)))
            /\ processingState' = CompleteState
            /\ UNCHANGED escaped
       ELSE /\ processingState' = FailureState(Thrown(Some(TypeErrorMessage)))
            /\ escaped' = escaped \cup EscapesCatch(c.id)
            /\ UNCHANGED result
    /\ lastEvent' = SettleEvent(IF IsSome(response) THEN "resolve" ELSE "mapthrow",
                                c.id, response, ticks)
    /\ ticks' = 0
    /\ UNCHANGED nextId
    /\ UNCHANGED formVars

\* The remote call of c rejects with thrown: control enters the catch block.
Reject(c, thrown) ==
    /\ c \in inflight
    /\ inflight' = inflight \ {c}
    /\ timers' = timers \ ClearedOnReject(c.id)
    /\ processingState' = FailureState(thrown)
    /\ escaped' = escaped \cup EscapesCatch(c.id)
    /\ lastEvent' = SettleEvent("reject", c.id, Some(thrown), ticks)
    /\ ticks' = 0
    /\ UNCHANGED <<result, nextId>>
    /\ UNCHANGED formVars

\* ResetButtonShown for a button rendered unconditionally.
ResetButtonShown_Always == TRUE

\* Home renders the "Process Another Interview" button under this condition.
ResetButtonShown == ~isLoading /\ (IsSome(result) \/ IsSome(error))

reset ==
    /\ ResetButtonShown
    /\ result' = None
    /\ processingState' = IdleState
    /\ lastEvent' = Event("reset", 0, None)
    /\ UNCHANGED <<timers, inflight, nextId, escaped, ticks>>
    /\ UNCHANGED formVars

(* ---------------------------- InterviewForm ---------------------------- *)

\* EffectErrors without the hasInteracted test.
EffectErrors_Unarmed(interacted, text, errors) ==
    IF ~Truthy(text) THEN <<RequiredFinding>> ELSE errors

\* The "validate transcript on change" effect, run with the values of the
\* render that follows a handler; it yields the new validationErrors and the
\* new debounce slot.
EffectErrors(interacted, text, errors) ==
    IF interacted /\ ~Truthy(text) THEN <<RequiredFinding>> ELSE errors

\* debounce of @/lib/utils, trailing edge: a call cancels the invocation
\* that is scheduled and schedules one for its own text.
debounce(slot, text) == {text}

\* ScheduleValidation for a debounced function created anew by each render:
\* the call starts from an empty slot and cancels nothing.
ScheduleValidation_PerRender(slot, text) == slot \cup debounce({}, text)

\* A call of the memoized debouncedValidate: useCallback(..., []) keeps the
\* debounced function of the first render, so every call shares its slot.
ScheduleValidation(slot, text) == debounce(slot, text)

EffectPending(interacted, text, slot) ==
    IF interacted /\ Truthy(text) THEN ScheduleValidation(slot, text) ELSE slot

\* The scheduled invocation a handler's effect cancelled, if any.
Cancelled(slot, newSlot) ==
    IF slot \ newSlot = {} THEN None ELSE Some(CHOOSE t \in slot \ newSlot : TRUE)

\* onChange of the textarea (disabled while isLoading).
handleTranscriptChange(value) ==
    /\ ~isLoading
    /\ value # transcript
    /\ transcript' = value
    /\ hasInteracted' = TRUE
    /\ validationErrors' = EffectErrors(TRUE, value, validationErrors)
    /\ pending' = EffectPending(TRUE, value, pending)
    /\ lastEvent' = Event("change", 0, Cancelled(pending, pending'))
    /\ UNCHANGED <<selectedModel, ticks>>
    /\ UNCHANGED hookVars

\* onChange of the model select (disabled while isLoading).
handleModelChange(m) ==
    /\ ~isLoading
    /\ m # selectedModel
    /\ selectedModel' = m
    /\ lastEvent' = Event("model", 0, None)
    /\ UNCHANGED <<transcript, validationErrors, hasInteracted, pending, ticks>>
    /\ UNCHANGED hookVars

\* SubmitAllowed without the isLoading check.
SubmitAllowed_NoLoadingCheck(errors) == Len(errors) = 0

\* SubmitAllowed reading the displayed findings instead of the fresh ones.
SubmitAllowed_Stale(errors) == Len(validationErrors) = 0 /\ ~isLoading

\* The gate in front of onSubmit.
SubmitAllowed(errors) == Len(errors) = 0 /\ ~isLoading

\* onSubmit of the form.  The handler does not rely on the button being
\* enabled, so it is taken in every state of the form.
handleSubmit ==
    /\ nextId < MaxSubmissions
    /\ LET errors == validateTranscript(transcript)
       IN  /\ hasInteracted' = TRUE
           /\ validationErrors' =
                 IF hasInteracted THEN errors
                 ELSE EffectErrors(TRUE, transcript, errors)
           /\ pending' =
                 IF hasInteracted THEN pending
                 ELSE EffectPending(TRUE, transcript, pending)
           /\ IF SubmitAllowed(errors)
              THEN /\ processInterviewStart(transcript, Some(selectedModel))
                   /\ lastEvent' = Event("submit", nextId + 1, None)
              ELSE /\ UNCHANGED hookVars
                   /\ UNCHANGED ticks
                   /\ lastEvent' = Event("submit", 0, None)
    /\ UNCHANGED <<transcript, selectedModel>>

\* onClick of Clear (disabled while isLoading or when the transcript is empty).
handleClear ==
    /\ ~isLoading
    /\ transcript.len # 0
    /\ transcript' = EmptyText
    /\ validationErrors' = EffectErrors(FALSE, EmptyText, <<>>)
    /\ hasInteracted' = FALSE
    /\ pending' = EffectPending(FALSE, EmptyText, pending)
    /\ lastEvent' = Event("clear", 0, None)
    /\ UNCHANGED <<selectedModel, ticks>>
    /\ UNCHANGED hookVars

\* The debounce delay elapses: the scheduled invocation runs the Validator.
debouncedValidate ==
    \E text \in pending :
    /\ validationErrors' = validateTranscript(text)
    /\ pending' = pending \ {text}
    /\ lastEvent' = Event("validate", 0, None)
    /\ UNCHANGED <<transcript, selectedModel, hasInteracted, ticks>>
    /\ UNCHANGED hookVars

(* --------------------------- specification ----------------------------- *)

Settle ==
    \E c \in inflight :
        \/ \E r \in Responses : Resolve(c, r)
        \/ \E e \in Rejections : Reject(c, e)

Next ==
    \/ \E v \in Texts : handleTranscriptChange(v)
    \/ \E m \in ModelValues : handleModelChange(m)
    \/ handleSubmit
    \/ handleClear
    \/ debouncedValidate
    \/ \E t \in timers : Tick(t)
    \/ \E c \in inflight : \E r \in Responses : Resolve(c, r)
    \/ \E c \in inflight : \E e \in Rejections : Reject(c, e)
    \/ reset

Spec == Init /\ [][Next]_vars

\* The remote call eventually settles.
LiveSpec == Spec /\ WF_vars(Settle)

TypeOK ==
    /\ processingState.progress \in 0..100
    /\ nextId \in 0..MaxSubmissions
    /\ ticks \in 0..MaxTicks
    /\ timers \subseteq 1..nextId
    /\ transcript \in Texts

(* ------------------------------ phases --------------------------------- *)

progress == processingState.progress
currentTask == processingState.currentTask

InProgressPhase == isLoading
CompletePhase ==
    /\ ~isLoading /\ progress = 100 /\ currentTask = "Complete"
    /\ error = None /\ IsSome(result)
ErrorPhase ==
    ~isLoading /\ IsSome(error) /\ progress = 0 /\ currentTask = ""
IdlePhase ==
    /\ ~isLoading /\ error = None /\ progress = 0 /\ currentTask = ""
    /\ result = None

InflightIds == {c.id : c \in inflight}
\* Submissions whose remote call has settled.
Settled == (1..nextId) \ InflightIds

SettleKinds == {"resolve", "mapthrow", "reject"}
FailureKinds == {"mapthrow", "reject"}
\* The step is an accepted submit or a reset.
SubmitOrReset ==
    \/ lastEvent'.kind = "submit" /\ lastEvent'.id # 0
    \/ lastEvent'.kind = "reset"

(* ------------------------------ claims --------------------------------- *)

\* C1: once the remote call of a submission has settled, no tick of that
\* submission's timer changes ProcessingState.
C1_NoTickAfterSettle ==
    [][\A t \in Settled :
          lastEvent' = Event("tick", t, None) => processingState' = processingState]_vars

\* C2: a failed remote call leaves isLoading = false, progress = 0,
\* currentTask = '' and a non-empty error, and that state stays until the
\* next accepted submit or reset.
C2_FailureStateHolds ==
    [][/\ lastEvent'.kind \in FailureKinds =>
            /\ ErrorPhase'
            /\ Val(error') # ""
       /\ (ErrorPhase /\ ~SubmitOrReset) => processingState' = processingState]_vars

\* C3: a successful remote call leaves isLoading = false, progress = 100,
\* currentTask = 'Complete', error = null, whatever number of ticks fired,
\* and that state stays until the next accepted submit or reset.
C3_SuccessStateHolds ==
    [][/\ lastEvent'.kind = "resolve" => CompletePhase'
       /\ (CompletePhase /\ ~SubmitOrReset) =>
            /\ processingState' = processingState
            /\ result' = result]_vars

\* A submission that saw all six steps succeeded while the timer of an
\* earlier failed submission is still running.
C3_Witness ==
    /\ CompletePhase
    /\ lastEvent.kind = "resolve"
    /\ lastEvent.ticks >= 6
    /\ timers # {}

\* C4: at most one remote call is in flight, and a submit issued while a call
\* is in flight starts no call and no timer and leaves ProcessingState and
\* result unchanged.
C4_SingleSubmission ==
    [][/\ Cardinality(inflight') <= 1
       /\ (inflight # {} /\ lastEvent'.kind = "submit") =>
            UNCHANGED <<processingState, result, inflight, timers, nextId>>]_vars

\* A submit of a valid transcript was turned down while a call is in flight.
C4_Witness ==
    /\ lastEvent = Event("submit", 0, None)
    /\ inflight # {}
    /\ validateTranscript(transcript) = <<>>

\* C5: a remote call is started only by a submit whose transcript has zero
\* findings at submit time; a submit with a finding starts no call and
\* leaves ProcessingState unchanged.
C5_ValidationGatesSubmit ==
    [][/\ (nextId' # nextId \/ inflight' \ inflight # {}) =>
            /\ lastEvent'.kind = "submit"
            /\ validateTranscript(transcript) = <<>>
       /\ (lastEvent'.kind = "submit" /\ validateTranscript(transcript) # <<>>) =>
            UNCHANGED <<processingState, result, inflight, timers, nextId>>]_vars

\* A submit was blocked while the displayed findings were still empty and the
\* debounced validation of the text had not run.
C5_Witness ==
    /\ lastEvent = Event("submit", 0, None)
    /\ ~isLoading
    /\ pending = {transcript}
    /\ validateTranscript(transcript) # <<>>
    /\ nextId = 0

\* C6: when the remote call eventually settles, isLoading = true leads to a
\* state with isLoading = false that is a success (result set, progress 100)
\* or a failure (error set, progress 0).
C6_SubmissionTerminates ==
    isLoading ~>
        /\ ~isLoading
        /\ \/ IsSome(result) /\ progress = 100
           \/ IsSome(error) /\ progress = 0

\* A submission failed after the simulator had run through all its steps.
C6_Witness ==
    /\ lastEvent.kind = "reject"
    /\ ~isLoading
    /\ lastEvent.ticks >= 6

\* The message the catch block is to surface for a thrown value.
ExpectedMessage(thrown) ==
    IF thrown.message = None \/ thrown.message = Some("")
    THEN GenericMessage
    ELSE Val(thrown.message)

\* C7: whatever the remote call or the response mapping throws, the promise
\* of processInterview does not reject and the state is the failure state
\* with the thrown message, or the generic message when there is none.
C7_FailureNeverEscapes ==
    [][/\ escaped' = {}
       /\ lastEvent'.kind = "reject" =>
            /\ ErrorPhase'
            /\ error' = Some(ExpectedMessage(Val(lastEvent'.arg)))
       /\ lastEvent'.kind = "mapthrow" =>
            /\ ErrorPhase'
            /\ error' = Some(TypeErrorMessage)]_vars

\* A call rejected with a value that has no message.
C7_Witness ==
    /\ lastEvent.kind = "reject"
    /\ lastEvent.arg = Some(Thrown(None))
    /\ error = Some(GenericMessage)

\* C8: a tick never lowers progress and never takes it above 100, and while
\* a submission is in flight progress never decreases.
C8_ProgressMonotonic ==
    [][/\ lastEvent'.kind = "tick" =>
            /\ progress' >= progress
            /\ progress' <= 100
       /\ (isLoading /\ isLoading') => progress' >= progress]_vars

\* A tick fired after the last step had been reached.
C8_Witness ==
    /\ lastEvent.kind = "tick"
    /\ isLoading
    /\ progress = 95
    /\ ticks = MaxTicks

\* C9: success and failure are entered only from a state with isLoading = true.
C9_TerminalOnlyFromSubmitting ==
    [][/\ lastEvent'.kind \in SettleKinds => isLoading
       /\ (~CompletePhase /\ CompletePhase') => isLoading
       /\ (~ErrorPhase /\ ErrorPhase') => isLoading]_vars

\* A later submission, made after a reset or a failure, has settled.
C9_Witness ==
    /\ lastEvent.kind = "resolve"
    /\ CompletePhase
    /\ nextId > 1

\* C10: in every reachable state exactly one of in-progress, complete, error
\* and idle holds.
C10_ExactlyOnePhase ==
    Cardinality({i \in 1..4 :
        <<InProgressPhase, CompletePhase, ErrorPhase, IdlePhase>>[i]}) = 1

\* The step is an accepted submit.
AcceptedSubmit == lastEvent'.kind = "submit" /\ lastEvent'.id # 0

\* C11: reset yields the idle state, and the idle state is left only by an
\* accepted submit: no other step changes ProcessingState or result.
C11_ResetYieldsStableIdle ==
    [][/\ lastEvent'.kind = "reset" => IdlePhase'
       /\ (IdlePhase /\ ~AcceptedSubmit) =>
            UNCHANGED <<processingState, result>>]_vars

\* The step's effect called debouncedValidate.
ValidationTriggered ==
    \/ lastEvent'.kind = "change" /\ Truthy(transcript')
    \/ lastEvent'.kind = "submit" /\ ~hasInteracted /\ Truthy(transcript)

\* C12: validation triggers that arrive before the scheduled invocation has
\* run leave exactly one invocation scheduled, for the text of the last
\* trigger; when it runs, the Validator is applied once, to that text.
C12_TrailingEdgeDebounce ==
    [][/\ Cardinality(pending') <= 1
       /\ ValidationTriggered => pending' = {transcript'}
       /\ lastEvent'.kind = "validate" =>
            \E text \in pending :
                /\ pending = {text}
                /\ validationErrors' = validateTranscript(text)
                /\ pending' = {}]_vars

\* A trigger arrived while the invocation for an earlier text was scheduled
\* and replaced it.
C12_Witness ==
    /\ lastEvent.kind = "change"
    /\ IsSome(lastEvent.arg)
    /\ Val(lastEvent.arg) # transcript
    /\ pending = {transcript}

ValidatorLengths ==
    {0, 1, MinTranscriptLength - 1, MinTranscriptLength, MinTranscriptLength + 1,
     MaxTranscriptLength - 1, MaxTranscriptLength, MaxTranscriptLength + 1}
ValidatorTexts ==
    {x \in [len : ValidatorLengths, trimmedLen : {0, 1} \cup ValidatorLengths] :
        /\ x.trimmedLen <= x.len
        /\ x.trimmedLen \in {0, 1, x.len}}

ValidatorInit ==
    /\ result = None
    /\ processingState = IdleState
    /\ timers = {}
    /\ inflight = {}
    /\ nextId = 0
    /\ escaped = {}
    /\ transcript \in ValidatorTexts
    /\ selectedModel = MODELS[1]
    /\ validationErrors = <<>>
    /\ hasInteracted = TRUE
    /\ pending = {}
    /\ ticks = 0
    /\ lastEvent = Event("init", 0, None)

\* The Validator is applied to the text at hand.
ApplyValidator ==
    /\ validationErrors' = validateTranscript(transcript)
    /\ lastEvent' = Event("validator", 0, Some(transcript))
    /\ UNCHANGED <<transcript, selectedModel, hasInteracted, pending, ticks>>
    /\ UNCHANGED hookVars

\* Another text is put in front of the Validator.
ChooseText(v) ==
    /\ v # transcript
    /\ transcript' = v
    /\ lastEvent' = Event("text", 0, None)
    /\ UNCHANGED <<selectedModel, validationErrors, hasInteracted, pending, ticks>>
    /\ UNCHANGED hookVars

ValidatorNext ==
    \/ ApplyValidator
    \/ \E v \in ValidatorTexts : ChooseText(v)

ValidatorSpec == ValidatorInit /\ [][ValidatorNext]_vars

Findings(errors) == {errors[i] : i \in DOMAIN errors}

\* C14: the Validator returns no finding exactly for the texts that are not
\* whitespace-only and have between 50 and 50,000 characters; a text of
\* fewer than 50 characters or with nothing but whitespace gets a finding, a
\* text of more than 50,000 characters gets the 'too long' finding.
C14_ValidatorAcceptsExactlyInRange ==
    lastEvent.kind = "validator" =>
        LET text == Val(lastEvent.arg)
        IN  /\ (validationErrors = <<>>) <=>
                    (text.trimmedLen > 0 /\ text.len >= 50 /\ text.len <= 50000)
            /\ (text.len < 50 \/ text.trimmedLen = 0) => (validationErrors # <<>>)
            /\ (text.len > 50000) => (TooLongFinding \in Findings(validationErrors))

\* A text of exactly 50 characters was validated and got no finding.
C14_Witness ==
    /\ lastEvent.kind = "validator"
    /\ Val(lastEvent.arg).len = 50
    /\ Val(lastEvent.arg).trimmedLen > 0
    /\ validationErrors = <<>>

\* C16: a failure state has isLoading = false; a submit of a valid transcript
\* in it is accepted, clears the error and starts a submission at progress
\* 0, and the call that settles next is the call of that submission: success
\* gives progress 100, failure gives progress 0.
C16_ResubmittableAfterFailure ==
    [][/\ IsSome(error') => ~isLoading'
       /\ (/\ IsSome(error)
           /\ lastEvent'.kind = "submit"
           /\ validateTranscript(transcript) = <<>>) =>
            /\ lastEvent'.id = nextId + 1
            /\ nextId' = nextId + 1
            /\ InflightIds' = {nextId + 1}
            /\ isLoading'
            /\ error' = None
            /\ progress' = 0
       /\ lastEvent'.kind \in SettleKinds => lastEvent'.id = nextId
       /\ lastEvent'.kind = "resolve" =>
            ~isLoading' /\ progress' = 100 /\ IsSome(result')
       /\ lastEvent'.kind \in FailureKinds =>
            ~isLoading' /\ progress' = 0 /\ IsSome(error')]_vars

\* A submission was accepted after an earlier one had failed (its timer is
\* still running next to the new one).
C16_Witness ==
    /\ lastEvent.kind = "submit"
    /\ lastEvent.id > 1
    /\ Cardinality(timers) > 1
    /\ isLoading
    /\ error = None
    /\ progress = 0

\* C17: an accepted submit clears the result, sets isLoading = true,
\* progress = 0 and error = null, and leaves the timer of the submission
\* running next to its remote call; the result is null whenever isLoading.
C17_SubmitResetsState ==
    [][/\ AcceptedSubmit =>
            /\ result' = None
            /\ isLoading'
            /\ progress' = 0
            /\ error' = None
            /\ nextId' = nextId + 1
            /\ nextId' \in timers'
            /\ nextId' \in InflightIds'
       /\ InflightIds' \subseteq timers'
       /\ isLoading' => result' = None]_vars

\* A second submission was accepted after the first had settled with its
\* timer cleared.
C17_Witness ==
    /\ lastEvent.kind = "submit"
    /\ lastEvent.id = 2
    /\ timers = {2}
    /\ isLoading
    /\ result = None

\* The table entry a tick is to move to from progress p < 95.
ExpectedStep(p) ==
    CASE p < 10 -> <<10, "Validating transcript...">>
      [] p >= 10 /\ p < 25 -> <<25, "Preprocessing text...">>
      [] p >= 25 /\ p < 40 -> <<40, "Analyzing content with AI...">>
      [] p >= 40 /\ p < 60 -> <<60, "Extracting highlights and lowlights...">>
      [] p >= 60 /\ p < 80 -> <<80, "Identifying key information...">>
      [] OTHER -> <<95, "Finalizing results...">>

\* The progress of a submission after n ticks.
ProgressAfter(n) == <<0, 10, 25, 40, 60, 80, 95>>[IF n < 6 THEN n + 1 ELSE 7]

\* C18: a tick moves (progress, currentTask) to the first table entry above
\* the current progress and changes neither isLoading, error nor the result;
\* at progress 95 or more it changes nothing.  While a submission is in
\* flight its progress after n ticks is the n-th value of 0, 10, 25, 40, 60,
\* 80, 95, and stays 95 from the sixth tick on.
C18_TickFollowsTable ==
    [][/\ lastEvent'.kind = "tick" =>
            /\ isLoading' = isLoading
            /\ error' = error
            /\ result' = result
            /\ progress >= 95 => processingState' = processingState
            /\ progress < 95 => <<progress', currentTask'>> = ExpectedStep(progress)
       /\ isLoading' => progress' = ProgressAfter(ticks')]_vars

\* The sixth tick of a submission has taken progress to 95.
C18_Witness ==
    /\ lastEvent.kind = "tick"
    /\ isLoading
    /\ ticks = 6
    /\ progress = 95
    /\ currentTask = "Finalizing results..."

\* C19: on success every field of the stored result equals the field of the
\* response, and the result is set by no step other than a success.
C19_ResultMirrorsResponse ==
    [][/\ lastEvent'.kind = "resolve" =>
            /\ IsSome(result')
            /\ Val(result').summary = Val(lastEvent'.arg).summary
            /\ Val(result').highlights = Val(lastEvent'.arg).highlights
            /\ Val(result').lowlights = Val(lastEvent'.arg).lowlights
            /\ Val(result').key_named_entities = Val(lastEvent'.arg).key_named_entities
            /\ Val(result').processing_time = Val(lastEvent'.arg).processing_time
            /\ Val(result').model = Val(lastEvent'.arg).model
       /\ (IsSome(result') /\ result' # result) => lastEvent'.kind = "resolve"]_vars

\* A call resolved with the second response and its fields are stored.
C19_Witness ==
    /\ lastEvent.kind = "resolve"
    /\ lastEvent.arg = Some(ResponseB)
    /\ IsSome(result)
    /\ Val(result).highlights = <<"h1", "h2">>
    /\ Val(result).lowlights = <<"l1">>

\* C20: the number of live progress timers is 1 while a submission is in
\* flight and 0 otherwise, and there is none while isLoading is false.
C20_OneTimerWhileInFlight ==
    /\ Cardinality(timers) = (IF inflight # {} THEN 1 ELSE 0)
    /\ ~isLoading => timers = {}

\* C21: isLoading is true exactly while a remote call is outstanding: in
\* every reachable state isLoading holds if and only if a processInterview
\* call has issued its request and that request has not settled.
C21_LoadingIffOutstanding == isLoading <=> inflight # {}

\* A second submission is outstanding, after the first one settled, and the
\* progress timer has already fired during it.
C21_Witness ==
    /\ isLoading
    /\ inflight # {}
    /\ nextId >= 2
    /\ lastEvent.kind = "tick"
    /\ progress >= 25

\* C22: result and error are never both non-null, and whenever result is
\* non-null isLoading is false and progress is 100.
C22_ResultExcludesError ==
    /\ ~(IsSome(result) /\ IsSome(error))
    /\ IsSome(result) => (~isLoading /\ progress = 100)

\* A result is shown after an earlier submission failed, and the timer that
\* failure left behind has fired on the completed state.
C22_Witness ==
    /\ IsSome(result)
    /\ error = None
    /\ timers # {}
    /\ lastEvent.kind = "tick"

\* The findings the form should display for a text: the Validator's result,
\* or the finding the effect sets itself when the transcript is empty.
CurrentFindings(text) ==
    IF Truthy(text)
    THEN {validateTranscript(text)}
    ELSE {validateTranscript(text), <<RequiredFinding>>}

\* C23: once validation is quiescent the displayed findings match the
\* current text: in every state where hasInteracted is true and no debounced
\* invocation is scheduled, validationErrors is the findings for the current
\* transcript, so an invocation scheduled for an earlier text never
\* overwrites the findings of a transcript emptied or cleared since.
C23_FindingsMatchText ==
    (hasInteracted /\ pending = {}) => validationErrors \in CurrentFindings(transcript)

(* ------------------- the hook called with any model -------------------- *)

\* The values a caller can pass for the optional model parameter:
\* undefined, the empty string, or a model identifier.
ModelArguments == {None, Some("")} \cup {Some(m) : m \in ModelValues}

\* processInterview called directly by a user of the hook that, like the
\* form, does not call while a submission is in flight.
processInterview(text, model) ==
    /\ ~isLoading
    /\ nextId < MaxSubmissions
    /\ processInterviewStart(text, model)
    /\ lastEvent' = Event("call", nextId + 1, Some([transcript |-> text, model |-> model]))
    /\ UNCHANGED formVars

RequestNext ==
    \/ Next
    \/ \E text \in Texts : \E model \in ModelArguments : processInterview(text, model)

RequestSpec == Init /\ [][RequestNext]_vars

\* The calls a step hands to the API client.
IssuedCalls == inflight' \ inflight

\* C24: the request sent to the API client carries the submitted transcript
\* unchanged and the supplied model identifier, or the default
\* 'anthropic/claude-3.5-sonnet' when the model is undefined or the empty
\* string, and exactly one remote call is made per accepted submission.
C24_RequestCarriesArguments ==
    [][/\ AcceptedSubmit =>
            IssuedCalls = {[id |-> nextId + 1,
                            request |-> [transcript |-> transcript, model |-> selectedModel]]}
       /\ lastEvent'.kind = "call" =>
            LET supplied == Val(lastEvent'.arg)
            IN  IssuedCalls =
                  {[id |-> nextId + 1,
                    request |-> [transcript |-> supplied.transcript,
                                 model |-> IF supplied.model \in {None, Some("")}
                                           THEN "anthropic/claude-3.5-sonnet"
                                           ELSE Val(supplied.model)]]}
       /\ (AcceptedSubmit \/ lastEvent'.kind = "call") => Cardinality(IssuedCalls) = 1
       /\ ~(AcceptedSubmit \/ lastEvent'.kind = "call") => IssuedCalls = {}]_vars

\* A call made with the empty string as model is in flight with the default
\* model and the transcript it was given.
C24_Witness ==
    /\ lastEvent.kind = "call"
    /\ Val(lastEvent.arg).model = Some("")
    /\ Val(lastEvent.arg).transcript = GoodText
    /\ inflight = {[id |-> nextId,
                    request |-> [transcript |-> GoodText, model |-> DefaultModel]]}

====
